---- MODULE Spec2Model ----
(***************************************************************************)
(* Model of swoc::Errata (code/include/swoc/Errata.h): reference counted   *)
(* handles onto Data blocks holding a LIFO list of annotations, the sink   *)
(* registry and the dispatch of sinks when a block is abandoned.           *)
(*                                                                         *)
(* Handles are slots 1..NumHandles; a slot is either dead (no object) or   *)
(* live.  Data blocks get fresh ids, never reused, so a pointer to a       *)
(* released block stays recognisable.  Every operation is one atomic step  *)
(* except finalization with sink dispatch, which is one step for the       *)
(* atomic decrement, one step per sink invoked and one step that releases  *)
(* the block; a thread is busy while it runs such a finalization.          *)
(***************************************************************************)
EXTENDS Integers, Sequences, FiniteSets, TLC

\* ---- bounds of the model ------------------------------------------------
NumHandles == 2   \* handle slots
MaxBlocks  == 2   \* Data blocks ever allocated in one behaviour
NumThreads == 2   \* threads, i.e. finalizations that can be in flight
MaxSinks   == 2   \* sink ids, and length of the registry
MaxMsgs    == 2   \* note calls with a fresh text in one behaviour
MaxLen     == 2   \* longest rendered text

MaxResult  == 1   \* greatest value of an int result

MaxNotes == MaxMsgs + 1   \* longest annotation list a merge may build
MaxCap   == MaxLen        \* largest remnant of the arena's current block

\* ---- enum class Severity -------------------------------------------------
DIAG  == 0
INFO  == 1
WARN  == 2
ERROR == 3
Severity == {DIAG, INFO, WARN, ERROR}
DEFAULT_SEVERITY == DIAG
FAILURE_SEVERITY == WARN

NULL    == 0      \* nullptr
NoRv    == -1     \* no result: the object is not an Rv
LITERAL == 0      \* memory of the caller, not an arena

Handles == 1..NumHandles
\* One more slot, for an Errata that is only ever a donor without annotations.
Donor == NumHandles + 1
AllHandles == Handles \cup {Donor}
Blocks  == 1..MaxBlocks
Sinks   == 1..MaxSinks
Threads == 1..NumThreads

VARIABLES
  live,        \* live[h]: an Errata object exists in slot h
  _data,       \* _data[h]: Errata::_data, a block id or NULL
  alive,       \* alive[b]: "unborn", "live", "released" (by release()) or
               \*           "cleared" (by clear())
  _ref_count,  \* _ref_count[b]: Data::_ref_count
  _notes,      \* _notes[b]: Data::_notes, head first
  _severity,   \* _severity[b]: Data::_severity
  Sink_List,   \* the registry of sinks, in registration order
  reported,    \* reported[b]: the sink calls made for block b, in order, each
               \*              with the annotations the sink was shown
  fin,         \* the finalizations in flight, one per busy thread
  fatal,       \* the call that raised the shared-write error, or "none"
  nmsg,        \* texts handed out so far
  reg,         \* reg[t]: the register_sink call thread t is in: where it is
               \*         (pc), the sink (s) and the size it read (n)
  _r,          \* _r[h]: Rv::_r of the Rv<int> whose _errata is the object in
               \*        slot h; NoRv when the object is an Errata on its own
  last         \* the last step, when it was a merge, a clear, a formatted
               \* note, or a destructor, a move or an assignment on a handle
               \* with a block, and what it worked on; Other otherwise

vars == <<live, _data, alive, _ref_count, _notes, _severity, Sink_List,
          reported, fin, fatal, nmsg, _r, reg, last>>

blockVars == <<alive, _ref_count, _notes, _severity>>

Max(a, b) == IF a >= b THEN a ELSE b
Min(a, b) == IF a <= b THEN a ELSE b

\* ---- texts ---------------------------------------------------------------
\* The k-th text handed to a note call: k repeated, of length 1..MaxLen.
Msg(k) == [i \in 1..(((k - 1) % MaxLen) + 1) |-> k]

\* Annotation(severity, text): _text is a view, memory plus characters.
Annotation(severity, text) == [_severity |-> severity, _text |-> text]

\* Data::localize: the copy of src in the arena of block b.
localize(b, src) == [mem |-> b, str |-> src.str]

\* FixedBufferWriter{span}.print_v(fmt, args) on a span of cap bytes, for a
\* rendering str: what was written, the extent needed, and the error flag.
print_v(cap, str) ==
  [buf    |-> SubSeq(str, 1, Min(cap, Len(str))),
   extent |-> Len(str),
   error  |-> Len(str) > cap]

\* ---- queries ------------------------------------------------------------
count(h) == IF _data[h] # NULL THEN Len(_notes[_data[h]]) ELSE 0

empty(h) == _data[h] = NULL \/ Len(_notes[_data[h]]) = 0

\* is_ok as it would be with <= in the place of <.
is_ok_le(h) ==
  \/ _data[h] = NULL
  \/ Len(_notes[_data[h]]) = 0
  \/ _severity[_data[h]] <= FAILURE_SEVERITY

is_ok(h) ==
  \/ _data[h] = NULL
  \/ Len(_notes[_data[h]]) = 0
  \/ _severity[_data[h]] < FAILURE_SEVERITY

severity(h) == IF _data[h] # NULL THEN _severity[_data[h]] ELSE DEFAULT_SEVERITY

\* front() as it would be returning the tail of the list.
front_back(h) == _notes[_data[h]][Len(_notes[_data[h]])]

front(h) == Head(_notes[_data[h]])

\* begin() .. end(): the annotations in iteration order.
Iterate(h) == IF _data[h] # NULL THEN _notes[_data[h]] ELSE <<>>

\* What a reader gets from an annotation: severity() and text().
Shown(n) == [severity |-> n._severity, text |-> n._text.str]

ShownAll(list) == [i \in 1..Len(list) |-> Shown(list[i])]

\* ---- bookkeeping ---------------------------------------------------------
\* A handle is busy while a finalization in flight works on it.
Busy(h) == \E f \in fin : h \in {f.h, f.that}

\* Some thread is free to make a call.
FreeThread == Cardinality(fin) < NumThreads

Ready(h) == live[h] /\ ~Busy(h) /\ fatal = "none" /\ FreeThread

\* A new object takes the lowest dead slot (slots are interchangeable); 0
\* when every slot is taken.
FreeSlot ==
  IF \A h \in Handles : live[h] THEN 0
  ELSE CHOOSE h \in Handles : ~live[h] /\ \A g \in Handles : ~live[g] => h <= g

Unborn == {b \in Blocks : alive[b] = "unborn"}

NewBlock == CHOOSE b \in Unborn : \A c \in Unborn : b <= c

\* The last step was no merge and no clear.
Other == [op |-> "other", b |-> 0, sev |-> 0, n |-> 0]

\* A merge took n annotations of aggregate severity sev from its donor; a
\* clear dropped the last reference to block b, which held n annotations of
\* aggregate severity sev (b = 0: it destroyed no block); a destructor ran
\* on a handle of block b, of aggregate severity sev, which had n references;
\* a move constructor took block b, or a move assignment to another handle
\* dropped the target's reference to block b, of aggregate severity sev,
\* which had n references.
Did(op, b, sev, n) == [op |-> op, b |-> b, sev |-> sev, n |-> n]

\* A formatted note found a remnant of cap bytes and used the arena as r
\* says.
Rendered(cap, r) ==
  [op |-> "note_v", cap |-> cap, from |-> r.from, alloc |-> r.alloc,
   prints |-> r.prints]

\* No register_sink call.
Idle == [pc |-> "idle", s |-> 0, n |-> 0]

Init ==
  /\ live = [h \in AllHandles |-> FALSE]
  /\ _data = [h \in AllHandles |-> NULL]
  /\ alive = [b \in Blocks |-> "unborn"]
  /\ _ref_count = [b \in Blocks |-> 0]
  /\ _notes = [b \in Blocks |-> <<>>]
  /\ _severity = [b \in Blocks |-> DEFAULT_SEVERITY]
  /\ Sink_List = <<>>
  /\ reported = [b \in Blocks |-> <<>>]
  /\ fin = {}
  /\ fatal = "none"
  /\ nmsg = 0
  /\ _r = [h \in AllHandles |-> NoRv]
  /\ reg = [t \in Threads |-> Idle]
  /\ last = Other

\* ---- the heap as a value -----------------------------------------------
\* The handles' pointers and the blocks, as one record S, so that a handler
\* that calls several methods is the composition of their effects.
Cur == [_data |-> _data, alive |-> alive, _ref_count |-> _ref_count,
        _notes |-> _notes, _severity |-> _severity]

Set(S) ==
  /\ _data' = S._data
  /\ alive' = S.alive
  /\ _ref_count' = S._ref_count
  /\ _notes' = S._notes
  /\ _severity' = S._severity

\* IntrusiveDList::prepend
prepend(list, n) == <<n>> \o list

\* Errata::data(): force data existence; a fresh block starts with one
\* reference.
data(S, h) ==
  IF S._data[h] # NULL THEN S
  ELSE LET b == NewBlock
       IN [S EXCEPT !._data[h] = b, !.alive[b] = "live", !._ref_count[b] = 1]

\* Errata::writeable_data(): TRUE when it raises the shared-write error.
SharedWrite(S, h) == S._data[h] # NULL /\ S._ref_count[S._data[h]] > 1

\* A block can be had for a write through h (the model allocates at most
\* MaxBlocks blocks).
CanWrite(h) == _data[h] # NULL \/ Unborn # {}

\* Errata::note_localized(severity, text)
note_localized(S, h, sev, text) ==
  LET S1 == data(S, h)
      b  == S1._data[h]
  IN [S1 EXCEPT !._notes[b] = prepend(@, Annotation(sev, text)),
                !._severity[b] = Max(@, sev)]

\* note(severity, text) as it would be keeping the view it is given, without
\* the copy into the block's arena.
note_unlocalized(S, h, sev, text) == note_localized(S, h, sev, text)

\* Errata::note(severity, text): the text is copied into the block's arena.
note(S, h, sev, text) ==
  LET b == data(S, h)._data[h]
  IN note_localized(S, h, sev, localize(b, text))

\* The span note_v ends with for a rendering str and a remnant of cap bytes:
\* it prints into the remnant and, when that went without error, takes the
\* prefix used and allocates it (from: "remnant"); else it allocates the
\* extent (from: "fresh") and prints again into that.  span: the characters
\* in the span; alloc: the bytes allocated; prints: the calls of print_v.
render(str, cap) ==
  LET bw == print_v(cap, str)
  IN IF ~bw.error
     THEN [span |-> SubSeq(bw.buf, 1, bw.extent), from |-> "remnant",
           alloc |-> bw.extent, prints |-> 1]
     ELSE [span |-> print_v(bw.extent, str).buf, from |-> "fresh",
           alloc |-> bw.extent, prints |-> 2]

\* note_v as it would be keeping what the first print_v wrote, without the
\* second try.
note_v_once(S, h, sev, str, cap) ==
  LET b == data(S, h)._data[h]
  IN note_localized(S, h, sev, [mem |-> b, str |-> print_v(cap, str).buf])

\* note_v as it would be putting its annotation in place of the list.
note_v_replace(S, h, sev, str, cap) ==
  LET S1 == data(S, h)
      b  == S1._data[h]
  IN note_localized([S1 EXCEPT !._notes[b] = <<>>], h, sev,
                    [mem |-> b, str |-> render(str, cap).span])

\* Errata::note_v(severity, fmt, args) for a rendering str and a remnant of
\* cap bytes.
note_v(S, h, sev, str, cap) ==
  LET b == data(S, h)._data[h]
  IN note_localized(S, h, sev, [mem |-> b, str |-> render(str, cap).span])

\* Errata::note(self_type const &that): every annotation of that is noted
\* on this, oldest first, so that they end up ahead of this' own annotations
\* in the order they had in that.
RECURSIVE note_each(_, _, _, _)
note_each(S, h, anns, k) ==
  IF k = 0 THEN S
  ELSE note_each(note(S, h, anns[k]._severity, anns[k]._text), h, anns, k - 1)

\* note(that) as it would be walking that from its head, so that the
\* annotations of that end up in reverse order.
note_copy_head_first(S, h, that) ==
  LET anns == IF S._data[that] # NULL THEN S._notes[S._data[that]] ELSE <<>>
      rev  == [i \in 1..Len(anns) |-> anns[Len(anns) + 1 - i]]
  IN note_each(S, h, rev, Len(rev))

note_copy(S, h, that) ==
  LET anns == IF S._data[that] # NULL THEN S._notes[S._data[that]] ELSE <<>>
  IN note_each(S, h, anns, Len(anns))

\* The Data block is destroyed and its memory given back.
free(S, b, how) ==
  [S EXCEPT !.alive[b] = how, !._notes[b] = <<>>,
            !._severity[b] = DEFAULT_SEVERITY]

\* --(_data->_ref_count)
unref(S, h) == [S EXCEPT !._ref_count[S._data[h]] = @ - 1]

\* The test ahead of the sink loop as it would be asking for a failure too.
Dispatches_failing(S, h) ==
  /\ S._data[h] # NULL
  /\ S._ref_count[S._data[h]] - 1 = 0
  /\ S._notes[S._data[h]] # <<>>
  /\ S._severity[S._data[h]] >= FAILURE_SEVERITY
  /\ Sink_List # <<>>

\* Errata::release() comes to its sink loop with something to call: this
\* was the last reference, the block holds annotations, sinks are registered.
Dispatches(S, h) ==
  /\ S._data[h] # NULL
  /\ S._ref_count[S._data[h]] - 1 = 0
  /\ S._notes[S._data[h]] # <<>>
  /\ Sink_List # <<>>

\* Errata::release(), the sink calls left aside: drop the reference, destroy
\* the block when that was the last one, and null the pointer.
release(S, h) ==
  IF S._data[h] = NULL THEN S
  ELSE LET b  == S._data[h]
           S1 == unref(S, h)
           S2 == IF S1._ref_count[b] = 0 THEN free(S1, b, "released") ELSE S1
       IN [S2 EXCEPT !._data[h] = NULL]

\* Errata::clear(): remove all messages and reset the handle.  The
\* reference is dropped; a block this handle alone owned is emptied first,
\* so that its finalization calls no sink.
clear(S, h) ==
  IF S._data[h] = NULL THEN S
  ELSE LET b  == S._data[h]
           S0 == IF S._ref_count[b] = 1 THEN [S EXCEPT !._notes[b] = <<>>] ELSE S
           S1 == unref(S0, h)
           S2 == IF S1._ref_count[b] = 0 THEN free(S1, b, "cleared") ELSE S1
       IN [S2 EXCEPT !._data[h] = NULL]

\* note(std::move(that)) as it would be without that.clear().
note_move_keep(S, h, that) == note_copy(S, h, that)

\* Errata::note(self_type &&that)
note_move(S, h, that) == clear(note_copy(S, h, that), that)

\* std::swap(_data, that._data)
swap(S, h, that) ==
  [S EXCEPT !._data[h] = S._data[that], !._data[that] = S._data[h]]

\* The shared-write error ends the program; nothing was changed.
Raise(call) ==
  /\ fatal' = call
  /\ UNCHANGED <<live, _data, blockVars, Sink_List, reported, fin, nmsg>>

\* ---- construction and destruction ----------------------------------------
\* The default constructor as it would be allocating its block at once.
Construct_eager(h) ==
  /\ UNCHANGED <<_r, reg>>
  /\ h = FreeSlot /\ fatal = "none" /\ FreeThread /\ Unborn # {}
  /\ live' = [live EXCEPT ![h] = TRUE]
  /\ Set(data([Cur EXCEPT !._data[h] = NULL], h))
  /\ last' = Other
  /\ UNCHANGED <<Sink_List, reported, fin, fatal, nmsg>>

\* Errata::Errata()
Construct(h) ==
  /\ UNCHANGED <<_r, reg>>
  /\ h = FreeSlot /\ fatal = "none" /\ FreeThread
  /\ live' = [live EXCEPT ![h] = TRUE]
  /\ _data' = [_data EXCEPT ![h] = NULL]
  /\ last' = Other
  /\ UNCHANGED <<blockVars, Sink_List, reported, fin, fatal, nmsg>>

\* The copy constructor as it would be without the increment.
CopyConstruct_nocount(h, that) ==
  /\ UNCHANGED <<_r, reg>>
  /\ h = FreeSlot /\ Ready(that)
  /\ live' = [live EXCEPT ![h] = TRUE]
  /\ _data' = [_data EXCEPT ![h] = _data[that]]
  /\ last' = Other
  /\ UNCHANGED <<blockVars, Sink_List, reported, fin, fatal, nmsg>>

\* Errata::Errata(self_type const &that)
CopyConstruct(h, that) ==
  /\ UNCHANGED <<_r, reg>>
  /\ h = FreeSlot /\ Ready(that)
  /\ live' = [live EXCEPT ![h] = TRUE]
  /\ _data' = [_data EXCEPT ![h] = _data[that]]
  /\ _ref_count' = IF _data[that] # NULL
                   THEN [_ref_count EXCEPT ![_data[that]] = @ + 1]
                   ELSE _ref_count
  /\ last' = Other
  /\ UNCHANGED <<alive, _notes, _severity, Sink_List, reported, fin, fatal, nmsg>>

\* The move constructor as it would be copying the pointer (_data =
\* that._data) instead of swapping: the source keeps its pointer.
MoveConstruct_alias(h, that) ==
  /\ UNCHANGED <<_r, reg>>
  /\ h = FreeSlot /\ Ready(that)
  /\ live' = [live EXCEPT ![h] = TRUE]
  /\ _data' = [_data EXCEPT ![h] = _data[that]]
  /\ last' = Other
  /\ UNCHANGED <<blockVars, Sink_List, reported, fin, fatal, nmsg>>

\* The move constructor as it would be doing what the copy constructor does.
MoveConstruct_copy(h, that) == CopyConstruct(h, that)

\* Errata::Errata(self_type &&that): swap with the fresh, null _data.
MoveConstruct(h, that) ==
  /\ UNCHANGED <<_r, reg>>
  /\ h = FreeSlot /\ Ready(that)
  /\ live' = [live EXCEPT ![h] = TRUE]
  /\ Set(swap([Cur EXCEPT !._data[h] = NULL], h, that))
  /\ last' = IF _data[that] # NULL
             THEN Did("move", _data[that], severity(that), _ref_count[_data[that]])
             ELSE Other
  /\ UNCHANGED <<Sink_List, reported, fin, fatal, nmsg>>

\* The first step of a release() that has sinks to call: the decrement.
\* The handle keeps its pointer while the sinks are called with *this.
StartDispatch(h, that, cont) ==
  /\ Set(unref(Cur, h))
  /\ fin' = fin \cup {[h |-> h, that |-> that, i |-> 1, cont |-> cont, pc |-> "sink"]}

\* Errata::~Errata()
Destroy(h) ==
  /\ UNCHANGED reg
  /\ Ready(h)
  /\ last' = IF _data[h] # NULL
             THEN Did("destroy", _data[h], severity(h), _ref_count[_data[h]])
             ELSE Other
  /\ IF Dispatches(Cur, h)
     THEN /\ StartDispatch(h, 0, "destroy")
          /\ UNCHANGED <<live, _r, Sink_List, reported, fatal, nmsg>>
     ELSE /\ Set(release(Cur, h))
          /\ live' = [live EXCEPT ![h] = FALSE]
          /\ _r' = [_r EXCEPT ![h] = NoRv]
          /\ UNCHANGED <<Sink_List, reported, fin, fatal, nmsg>>

\* operator= as it would be with clear() in the place of release(): the old
\* block goes without its sinks being called.
MoveAssign_clear(h, that) ==
  /\ UNCHANGED <<_r, reg>>
  /\ Ready(h) /\ Ready(that)
  /\ last' = Other
  /\ IF h = that
     THEN UNCHANGED <<live, _data, blockVars, Sink_List, reported, fin, fatal, nmsg>>
     ELSE /\ Set(swap(clear(Cur, h), h, that))
          /\ UNCHANGED <<live, Sink_List, reported, fin, fatal, nmsg>>

\* operator= as it would be without the test this != &that.
MoveAssign_unguarded(h, that) ==
  /\ UNCHANGED <<_r, reg>>
  /\ Ready(h) /\ Ready(that)
  /\ last' = Other
  /\ IF Dispatches(Cur, h)
     THEN /\ StartDispatch(h, that, "assign")
          /\ UNCHANGED <<live, Sink_List, reported, fatal, nmsg>>
     ELSE /\ Set(swap(release(Cur, h), h, that))
          /\ UNCHANGED <<live, Sink_List, reported, fin, fatal, nmsg>>

\* Errata::operator=(self_type &&that)
MoveAssign(h, that) ==
  /\ UNCHANGED <<_r, reg>>
  /\ Ready(h) /\ Ready(that)
  /\ last' = IF h # that /\ _data[h] # NULL
             THEN Did("assign", _data[h], severity(h), _ref_count[_data[h]])
             ELSE Other
  /\ IF h = that
     THEN UNCHANGED <<live, _data, blockVars, Sink_List, reported, fin, fatal, nmsg>>
     ELSE IF Dispatches(Cur, h)
     THEN /\ StartDispatch(h, that, "assign")
          /\ UNCHANGED <<live, Sink_List, reported, fatal, nmsg>>
     ELSE /\ Set(swap(release(Cur, h), h, that))
          /\ UNCHANGED <<live, Sink_List, reported, fin, fatal, nmsg>>

\* release(): (*f)(*this) for the next sink of the registry.
SinkStep(f) ==
  /\ UNCHANGED <<_r, reg>>
  /\ f \in fin /\ f.pc = "sink"
  /\ LET b == _data[f.h]
     IN reported' = [reported EXCEPT ![b] =
                       Append(@, [sink |-> Sink_List[f.i],
                                  seen |-> ShownAll(Iterate(f.h))])]
  /\ fin' = (fin \ {f}) \cup
            {IF f.i = Len(Sink_List) THEN [f EXCEPT !.pc = "free"]
                                     ELSE [f EXCEPT !.i = @ + 1]}
  /\ last' = Other
  /\ UNCHANGED <<live, _data, blockVars, Sink_List, fatal, nmsg>>

\* release(): after the sink loop the block is destroyed and the pointer
\* nulled; then the destructor or the assignment goes on.
FreeStep(f) ==
  /\ UNCHANGED reg
  /\ f \in fin /\ f.pc = "free"
  /\ LET S1 == [free(Cur, _data[f.h], "released") EXCEPT !._data[f.h] = NULL]
     IN IF f.cont = "assign"
        THEN Set(swap(S1, f.h, f.that)) /\ UNCHANGED <<live, _r>>
        ELSE IF f.cont = "destroy"
        THEN /\ Set(S1) /\ live' = [live EXCEPT ![f.h] = FALSE]
             /\ _r' = [_r EXCEPT ![f.h] = NoRv]
        ELSE Set(S1) /\ UNCHANGED <<live, _r>>
  /\ fin' = fin \ {f}
  /\ last' = Other
  /\ UNCHANGED <<Sink_List, reported, fatal, nmsg>>

\* ---- mutation ------------------------------------------------------------
\* e.note(sev, text) with a fresh literal text
Note(h, sev) ==
  /\ UNCHANGED <<_r, reg>>
  /\ Ready(h) /\ CanWrite(h) /\ nmsg < MaxMsgs
  /\ last' = Other
  /\ IF SharedWrite(Cur, h) THEN Raise("note")
     ELSE /\ Set(note(Cur, h, sev, [mem |-> LITERAL, str |-> Msg(nmsg + 1)]))
          /\ nmsg' = nmsg + 1
          /\ UNCHANGED <<live, Sink_List, reported, fin, fatal>>

\* note_v as it would be taking _data as it is, without writeable_data().
NoteV_unchecked(h, sev, cap) ==
  /\ UNCHANGED <<_r, reg>>
  /\ Ready(h) /\ CanWrite(h) /\ nmsg < MaxMsgs
  /\ last' = Other
  /\ Set(note_v(Cur, h, sev, Msg(nmsg + 1), cap))
  /\ nmsg' = nmsg + 1
  /\ UNCHANGED <<live, Sink_List, reported, fin, fatal>>

\* e.note(sev, fmt, args...), and e.diag / info / warn / error (fmt, args...)
\* on an lvalue, which are note_v with their severity
NoteV(h, sev, cap) ==
  /\ UNCHANGED <<_r, reg>>
  /\ Ready(h) /\ CanWrite(h) /\ nmsg < MaxMsgs
  /\ IF SharedWrite(Cur, h) THEN Raise("note_v") /\ last' = Other
     ELSE /\ Set(note_v(Cur, h, sev, Msg(nmsg + 1), cap))
          /\ last' = Rendered(cap, render(Msg(nmsg + 1), cap))
          /\ nmsg' = nmsg + 1
          /\ UNCHANGED <<live, Sink_List, reported, fin, fatal>>

\* note(that) as it would be asking for the writeable block ahead of the
\* walk over that, whatever that holds.
NoteCopy_checked(h, that) ==
  /\ UNCHANGED <<_r, reg>>
  /\ Ready(h) /\ Ready(that) /\ h # that /\ CanWrite(h)
  /\ count(h) + count(that) <= MaxNotes
  /\ IF SharedWrite(Cur, h)
     THEN Raise("note_copy") /\ last' = Other
     ELSE /\ Set(note_copy(data(Cur, h), h, that))
          /\ last' = Did("note_copy", 0, severity(that), count(that))
          /\ UNCHANGED <<live, Sink_List, reported, fin, fatal, nmsg>>

\* this.note(that), copy form
NoteCopy(h, that) ==
  /\ UNCHANGED <<_r, reg>>
  /\ Ready(h) /\ Ready(that) /\ h # that /\ CanWrite(h)
  /\ count(h) + count(that) <= MaxNotes
  /\ IF count(that) > 0 /\ SharedWrite(Cur, h)
     THEN Raise("note_copy") /\ last' = Other
     ELSE /\ Set(note_copy(Cur, h, that))
          /\ last' = Did("note_copy", 0, severity(that), count(that))
          /\ UNCHANGED <<live, Sink_List, reported, fin, fatal, nmsg>>

\* note(std::move(that)) as it would be dropping that's reference the way
\* a destructor does, instead of that.clear(): the sinks are called for the
\* donor's block.
NoteMove_release(h, that) ==
  /\ UNCHANGED <<_r, reg>>
  /\ Ready(h) /\ Ready(that) /\ h # that /\ CanWrite(h)
  /\ count(h) + count(that) <= MaxNotes
  /\ IF count(that) > 0 /\ SharedWrite(Cur, h)
     THEN Raise("note_move") /\ last' = Other
     ELSE LET S1 == note_copy(Cur, h, that)
          IN /\ last' = Did("note_move", 0, severity(that), count(that))
             /\ IF Dispatches(S1, that)
                THEN /\ Set(unref(S1, that))
                     /\ fin' = fin \cup {[h |-> that, that |-> 0, i |-> 1,
                                           cont |-> "clear", pc |-> "sink"]}
                     /\ UNCHANGED <<live, Sink_List, reported, fatal, nmsg>>
                ELSE /\ Set(release(S1, that))
                     /\ UNCHANGED <<live, Sink_List, reported, fin, fatal, nmsg>>

\* this.note(std::move(that))
NoteMove(h, that) ==
  /\ UNCHANGED <<_r, reg>>
  /\ Ready(h) /\ Ready(that) /\ h # that /\ CanWrite(h)
  /\ count(h) + count(that) <= MaxNotes
  /\ IF count(that) > 0 /\ SharedWrite(Cur, h)
     THEN Raise("note_move") /\ last' = Other
     ELSE /\ Set(note_move(Cur, h, that))
          /\ last' = Did("note_move", 0, severity(that), count(that))
          /\ UNCHANGED <<live, Sink_List, reported, fin, fatal, nmsg>>

\* clear() as it would be with a bare release(): the messages stay and
\* the sinks are called.
Clear_release(h) ==
  /\ UNCHANGED <<_r, reg>>
  /\ Ready(h)
  /\ last' = Other
  /\ IF Dispatches(Cur, h)
     THEN /\ StartDispatch(h, 0, "clear")
          /\ UNCHANGED <<live, Sink_List, reported, fatal, nmsg>>
     ELSE /\ Set(release(Cur, h))
          /\ UNCHANGED <<live, Sink_List, reported, fin, fatal, nmsg>>

\* e.clear()
Clear(h) ==
  /\ UNCHANGED <<_r, reg>>
  /\ Ready(h)
  /\ last' = IF _data[h] # NULL /\ _ref_count[_data[h]] = 1
             THEN Did("clear", _data[h], severity(h), count(h))
             ELSE Did("clear", 0, 0, 0)
  /\ Set(clear(Cur, h))
  /\ UNCHANGED <<live, Sink_List, reported, fin, fatal, nmsg>>

\* Errata::register_sink(s): appended to the registry.  The k-th sink
\* registered is sink k (sinks are interchangeable).  Registration is not
\* taken while a dispatch walks the registry.
RegisterSink(s) ==
  /\ UNCHANGED <<_r, reg>>
  /\ fatal = "none" /\ fin = {} /\ s = Len(Sink_List) + 1
  /\ Sink_List' = Append(Sink_List, s)
  /\ last' = Other
  /\ UNCHANGED <<live, _data, blockVars, reported, fin, fatal, nmsg>>

Next ==
  \/ \E h \in Handles : Construct(h)
  \/ \E h, that \in Handles : CopyConstruct(h, that)
  \/ \E h, that \in Handles : MoveConstruct(h, that)
  \/ \E h \in Handles : Destroy(h)
  \/ \E h, that \in Handles : MoveAssign(h, that)
  \/ \E f \in fin : SinkStep(f)
  \/ \E f \in fin : FreeStep(f)
  \/ \E h \in Handles, sev \in Severity : Note(h, sev)
  \/ \E h \in Handles, sev \in Severity, cap \in 0..MaxCap : NoteV(h, sev, cap)
  \/ \E h, that \in Handles : NoteCopy(h, that)
  \/ \E h, that \in Handles : NoteMove(h, that)
  \/ \E h \in Handles : Clear(h)
  \/ \E s \in Sinks : RegisterSink(s)

Spec == Init /\ [][Next]_vars

\* ---- Rv<int> --------------------------------------------------------------
\* The values of an int; int{} is DefaultResult.
Results == 0..MaxResult

DefaultResult == 0

\* The object in slot h is an Rv.
IsRv(h) == live[h] /\ _r[h] # NoRv

\* Rv::result()
result(h) == _r[h]

\* Rv::is_ok()
Rv_is_ok(h) == is_ok(h)

\* An Rv was made in slot h from the Errata in slot that alone, which held n
\* annotations of aggregate severity sev.
FromErrata(h, that, sev, n) ==
  [op |-> "rv_errata", h |-> h, that |-> that, sev |-> sev, n |-> n]

\* Rv::Rv(): _r has no initializer; for int it is left uninitialized, and
\* holds whatever was there.
RvDefault(h) ==
  /\ UNCHANGED reg
  /\ h = FreeSlot /\ fatal = "none" /\ FreeThread
  /\ live' = [live EXCEPT ![h] = TRUE]
  /\ _data' = [_data EXCEPT ![h] = NULL]
  /\ \E r \in Results : _r' = [_r EXCEPT ![h] = r]
  /\ last' = Other
  /\ UNCHANGED <<blockVars, Sink_List, reported, fin, fatal, nmsg>>

\* Rv::Rv(result_type const &r) and Rv::Rv(R &&r): _r(r)
RvResult(h, r) ==
  /\ UNCHANGED reg
  /\ h = FreeSlot /\ fatal = "none" /\ FreeThread
  /\ live' = [live EXCEPT ![h] = TRUE]
  /\ _data' = [_data EXCEPT ![h] = NULL]
  /\ _r' = [_r EXCEPT ![h] = r]
  /\ last' = Other
  /\ UNCHANGED <<blockVars, Sink_List, reported, fin, fatal, nmsg>>

\* Rv::Rv(result_type const &r, Errata &&errata) and Rv::Rv(R &&r, Errata
\* &&errata): _r(r), _errata(std::move(errata))
RvBoth(h, r, that) ==
  /\ UNCHANGED reg
  /\ h = FreeSlot /\ Ready(that)
  /\ live' = [live EXCEPT ![h] = TRUE]
  /\ Set(swap([Cur EXCEPT !._data[h] = NULL], h, that))
  /\ _r' = [_r EXCEPT ![h] = r]
  /\ last' = IF _data[that] # NULL
             THEN Did("move", _data[that], severity(that), _ref_count[_data[that]])
             ELSE Other
  /\ UNCHANGED <<Sink_List, reported, fin, fatal, nmsg>>

\* Rv::Rv(Errata &&errata): _errata{std::move(errata)}; _r is left
\* uninitialized.
RvErrata(h, that) ==
  /\ UNCHANGED reg
  /\ h = FreeSlot /\ Ready(that)
  /\ live' = [live EXCEPT ![h] = TRUE]
  /\ Set(swap([Cur EXCEPT !._data[h] = NULL], h, that))
  /\ \E r \in Results : _r' = [_r EXCEPT ![h] = r]
  /\ last' = FromErrata(h, that, severity(that), count(that))
  /\ UNCHANGED <<Sink_List, reported, fin, fatal, nmsg>>

\* Rv::operator=(Errata &&) as it would be taking the pointer over without
\* releasing the status it holds.
RvAssignErrata_drop(h, that) ==
  /\ IsRv(h) /\ Ready(h) /\ Ready(that)
  /\ _data' = IF h = that THEN _data
              ELSE [_data EXCEPT ![h] = _data[that], ![that] = NULL]
  /\ last' = Other
  /\ UNCHANGED <<live, blockVars, Sink_List, reported, fin, fatal, nmsg, _r, reg>>

\* Rv::operator=(Errata &&errata): _errata = std::move(errata)
RvAssignErrata(h, that) == IsRv(h) /\ MoveAssign(h, that)

\* The assignment of a result as it would be resetting the status as well.
RvAssignResult_reset(h, r) ==
  /\ UNCHANGED reg
  /\ IsRv(h) /\ Ready(h)
  /\ _r' = [_r EXCEPT ![h] = r]
  /\ _data' = [_data EXCEPT ![h] = NULL]
  /\ last' = Other
  /\ UNCHANGED <<live, blockVars, Sink_List, reported, fin, fatal, nmsg>>

\* Rv::operator=(result_type const &r), operator=(result_type &&r) and
\* Rv::assign(r): _r = r
RvAssignResult(h, r) ==
  /\ UNCHANGED reg
  /\ IsRv(h) /\ Ready(h)
  /\ _r' = [_r EXCEPT ![h] = r]
  /\ last' = Other
  /\ UNCHANGED <<live, _data, blockVars, Sink_List, reported, fin, fatal, nmsg>>

\* Rv::note(level, text): _errata.note(level, text)
RvNote(h, sev) == IsRv(h) /\ Note(h, sev)

\* Rv::note(level, fmt, args...): _errata.note_v(level, fmt, args)
RvNoteV(h, sev, cap) == IsRv(h) /\ NoteV(h, sev, cap)

\* Rv objects, and the Errata objects their statuses come from: these are
\* constructed, noted on, copied, cleared and destroyed.
NextRv ==
  \/ \E h \in Handles : Construct(h)
  \/ \E h, that \in Handles : CopyConstruct(h, that)
  \/ \E h \in Handles : Destroy(h)
  \/ \E f \in fin : SinkStep(f)
  \/ \E f \in fin : FreeStep(f)
  \/ \E h \in Handles, sev \in Severity : Note(h, sev)
  \/ \E h \in Handles : Clear(h)
  \/ \E s \in Sinks : RegisterSink(s)
  \/ \E h \in Handles : RvDefault(h)
  \/ \E h \in Handles, r \in Results : RvResult(h, r)
  \/ \E h, that \in Handles, r \in Results : RvBoth(h, r, that)
  \/ \E h, that \in Handles : RvErrata(h, that)
  \/ \E h, that \in Handles : RvAssignErrata(h, that)
  \/ \E h \in Handles, r \in Results : RvAssignResult(h, r)
  \/ \E h \in Handles, sev \in Severity : RvNote(h, sev)
  \/ \E h \in Handles, sev \in Severity, cap \in 0..MaxCap : RvNoteV(h, sev, cap)

\* Errata and Rv<int> objects together.
SpecRv == Init /\ [][NextRv]_vars

\* ---- register_sink, step by step ----------------------------------------
\* A register_sink call of thread t: it takes the exclusion of the registry,
\* reads the size of the list, stores the sink behind the last one, and lets
\* the exclusion go.  RegisterSink above is the same call in one step.

\* Thread t is inside the exclusion.
Inside(t) == reg[t].pc \in {"locked", "read", "written"}

\* No register_sink call is running.
RegIdle == \A t \in Threads : reg[t].pc = "idle"

\* A thread is free to make a call on an Errata.
ErrataCall == \E t \in Threads : reg[t].pc = "idle"

RegFrame == UNCHANGED <<live, _data, blockVars, reported, fin, fatal, nmsg, _r>>

\* Thread t calls register_sink(s), s a sink no call has been made for.
RegCall(t, s) ==
  /\ fatal = "none" /\ fin = {} /\ reg[t].pc = "idle"
  /\ \A i \in 1..Len(Sink_List) : Sink_List[i] # s
  /\ \A u \in Threads : reg[u].s # s
  /\ reg' = [reg EXCEPT ![t] = [pc |-> "wait", s |-> s, n |-> 0]]
  /\ last' = Other
  /\ UNCHANGED Sink_List /\ RegFrame

\* The exclusion as it would be letting every caller in.
RegLock_unguarded(t) ==
  /\ reg[t].pc = "wait"
  /\ reg' = [reg EXCEPT ![t].pc = "locked"]
  /\ last' = Other
  /\ UNCHANGED Sink_List /\ RegFrame

\* Thread t gets the exclusion: no other thread is inside.
RegLock(t) ==
  /\ reg[t].pc = "wait"
  /\ \A u \in Threads : ~Inside(u)
  /\ reg' = [reg EXCEPT ![t].pc = "locked"]
  /\ last' = Other
  /\ UNCHANGED Sink_List /\ RegFrame

\* The append reads where the list ends.
RegRead(t) ==
  /\ reg[t].pc = "locked"
  /\ reg' = [reg EXCEPT ![t].pc = "read", ![t].n = Len(Sink_List)]
  /\ last' = Other
  /\ UNCHANGED Sink_List /\ RegFrame

\* The append stores the sink behind the end it read.
RegWrite(t) ==
  /\ reg[t].pc = "read"
  /\ Sink_List' = IF reg[t].n < Len(Sink_List)
                  THEN [Sink_List EXCEPT ![reg[t].n + 1] = reg[t].s]
                  ELSE Append(Sink_List, reg[t].s)
  /\ reg' = [reg EXCEPT ![t].pc = "written"]
  /\ last' = Other
  /\ RegFrame

\* Thread t lets the exclusion go and the call returns.
RegUnlock(t) ==
  /\ reg[t].pc = "written"
  /\ reg' = [reg EXCEPT ![t] = Idle]
  /\ last' = Other
  /\ UNCHANGED Sink_List /\ RegFrame

\* Threads registering sinks while Errata objects are made, noted on and
\* destroyed; a destructor runs when no registration is under way.
NextSink ==
  \/ \E t \in Threads, s \in Sinks : RegCall(t, s)
  \/ \E t \in Threads : RegLock(t)
  \/ \E t \in Threads : RegRead(t)
  \/ \E t \in Threads : RegWrite(t)
  \/ \E t \in Threads : RegUnlock(t)
  \/ \E h \in Handles : ErrataCall /\ Construct(h)
  \/ \E h \in Handles, sev \in Severity : ErrataCall /\ Note(h, sev)
  \/ \E h \in Handles : RegIdle /\ Destroy(h)
  \/ \E f \in fin : SinkStep(f)
  \/ \E f \in fin : FreeStep(f)

SpecSink == Init /\ [][NextSink]_vars

\* ---- the value-returning shortcuts --------------------------------------
\* Record of the call just made: a && shortcut noted with severity sev on
\* that and returned h, which holds block b.
Returned(h, that, b, sev) ==
  [op |-> "shortcut", h |-> h, that |-> that, b |-> b, sev |-> sev]

\* The && shortcut as it would be without std::move: the returned object is
\* copy constructed and shares the block.
Shortcut_copy(h, that, sev, cap) ==
  /\ UNCHANGED <<_r, reg>>
  /\ h = FreeSlot /\ Ready(that) /\ CanWrite(that) /\ nmsg < MaxMsgs
  /\ IF SharedWrite(Cur, that) THEN Raise("note_v") /\ last' = Other
     ELSE LET S1 == note_v(Cur, that, sev, Msg(nmsg + 1), cap)
              b  == S1._data[that]
          IN /\ Set([S1 EXCEPT !._data[h] = b, !._ref_count[b] = @ + 1])
             /\ live' = [live EXCEPT ![h] = TRUE]
             /\ last' = Returned(h, that, b, sev)
             /\ nmsg' = nmsg + 1
             /\ UNCHANGED <<Sink_List, reported, fin, fatal>>

\* Errata::diag / info / warn / error (fmt, args...) &&:
\* return std::move(this->note_v(severity, fmt, args)), the returned object h
\* being move constructed from *this.
Shortcut(h, that, sev, cap) ==
  /\ UNCHANGED <<_r, reg>>
  /\ h = FreeSlot /\ Ready(that) /\ CanWrite(that) /\ nmsg < MaxMsgs
  /\ IF SharedWrite(Cur, that) THEN Raise("note_v") /\ last' = Other
     ELSE LET S1 == note_v(Cur, that, sev, Msg(nmsg + 1), cap)
          IN /\ Set(swap([S1 EXCEPT !._data[h] = NULL], h, that))
             /\ live' = [live EXCEPT ![h] = TRUE]
             /\ last' = Returned(h, that, S1._data[that], sev)
             /\ nmsg' = nmsg + 1
             /\ UNCHANGED <<Sink_List, reported, fin, fatal>>

\* Errata objects that are made, noted on through the shortcuts of both
\* forms, copied and destroyed, with sinks registered.
NextShortcut ==
  \/ \E h \in Handles : Construct(h)
  \/ \E h, that \in Handles : CopyConstruct(h, that)
  \/ \E h, that \in Handles, sev \in Severity, cap \in 0..MaxCap :
        Shortcut(h, that, sev, cap)
  \/ \E h \in Handles, sev \in Severity, cap \in 0..MaxCap : NoteV(h, sev, cap)
  \/ \E h \in Handles : Destroy(h)
  \/ \E f \in fin : SinkStep(f)
  \/ \E f \in fin : FreeStep(f)
  \/ \E s \in Sinks : RegisterSink(s)

SpecShortcut == Init /\ [][NextShortcut]_vars

\* ---- a sink that copies its argument -------------------------------------
\* A sink, while it is called by the finalization f, copy constructs an
\* Errata from the Errata const & it is given and destroys the copy before
\* it returns.  SinkStep(f) is the return of the call.

\* f is the finalization run by the destructor of a sink's copy; f.that is
\* the handle whose finalization called that sink.
IsNested(f) == f.cont = "destroy" /\ f.that # 0

\* g is the copy a sink made of the handle under finalization.
IsCopy(g) ==
  /\ live[g] /\ _data[g] # NULL
  /\ \E f \in fin : f.h # g /\ ~IsNested(f) /\ _data[f.h] = _data[g]

\* The sink f called has not returned: its copy exists.
Suspended(f) ==
  ~IsNested(f) /\ \E g \in Handles \ {f.h} : live[g] /\ _data[g] = _data[f.h]

\* The block f works on was destroyed under it by a nested finalization.
Dangles(f) == ~IsNested(f) /\ alive[_data[f.h]] = "released"

\* The sink called by f runs Errata copy(view): the copy constructor on the
\* handle under finalization.
SinkCopy(f, g) ==
  /\ UNCHANGED <<_r, reg>>
  /\ f \in fin /\ f.pc = "sink" /\ ~IsNested(f) /\ ~Suspended(f) /\ ~Dangles(f)
  /\ fatal = "none" /\ g = FreeSlot
  /\ live' = [live EXCEPT ![g] = TRUE]
  /\ _data' = [_data EXCEPT ![g] = _data[f.h]]
  /\ _ref_count' = [_ref_count EXCEPT ![_data[f.h]] = @ + 1]
  /\ last' = Other
  /\ UNCHANGED <<alive, _notes, _severity, Sink_List, reported, fin, fatal, nmsg>>

\* The copy g goes out of scope in the sink: ~Errata() on g, whose release()
\* runs inside the sink call of f.
SinkDestroyCopy(f, g) ==
  /\ UNCHANGED reg
  /\ f \in fin /\ f.pc = "sink" /\ ~IsNested(f) /\ fatal = "none"
  /\ g # f.h /\ live[g] /\ _data[g] # NULL /\ _data[g] = _data[f.h]
  /\ \A n \in fin : n.h # g
  /\ last' = Did("destroy", _data[g], severity(g), _ref_count[_data[g]])
  /\ IF Dispatches(Cur, g)
     THEN /\ StartDispatch(g, f.h, "destroy")
          /\ UNCHANGED <<live, _r, Sink_List, reported, fatal, nmsg>>
     ELSE /\ Set(release(Cur, g))
          /\ live' = [live EXCEPT ![g] = FALSE]
          /\ _r' = [_r EXCEPT ![g] = NoRv]
          /\ UNCHANGED <<Sink_List, reported, fin, fatal, nmsg>>

\* The finalization f goes on with a block that was destroyed: the read of
\* the block for the next sink and the second destruction are undefined.
\* Either the program ends, or the sink is called and sees what the memory
\* holds (nothing, or what the block held), or the block is destroyed again.
Dangling(f) ==
  /\ UNCHANGED <<_r, reg>>
  /\ f \in fin /\ Dangles(f) /\ ~Suspended(f) /\ fatal = "none"
  /\ last' = Other
  /\ \/ /\ fatal' = "dangling"
        /\ UNCHANGED <<live, _data, blockVars, Sink_List, reported, fin, nmsg>>
     \/ /\ f.pc = "sink"
        /\ \E seen \in {<<>>} \cup {reported[_data[f.h]][i].seen :
                                     i \in 1..Len(reported[_data[f.h]])} :
              reported' = [reported EXCEPT ![_data[f.h]] =
                             Append(@, [sink |-> Sink_List[f.i], seen |-> seen])]
        /\ fin' = (fin \ {f}) \cup
                  {IF f.i = Len(Sink_List) THEN [f EXCEPT !.pc = "free"]
                                           ELSE [f EXCEPT !.i = @ + 1]}
        /\ UNCHANGED <<live, _data, blockVars, Sink_List, fatal, nmsg>>
     \/ /\ f.pc = "free"
        /\ _data' = [_data EXCEPT ![f.h] = NULL]
        /\ live' = [live EXCEPT ![f.h] = FALSE]
        /\ fin' = fin \ {f}
        /\ UNCHANGED <<blockVars, Sink_List, reported, fatal, nmsg>>

\* Errata objects that are made, noted on and destroyed, with sinks that
\* copy what they are given.  A call of another thread does not touch the
\* copy of a sink, and a finalization waits for the sink it called.
NextReentrant ==
  \/ \E h \in Handles : Construct(h)
  \/ \E h \in Handles, sev \in Severity : ~IsCopy(h) /\ Note(h, sev)
  \/ \E s \in Sinks : RegisterSink(s)
  \/ \E h \in Handles : ~IsCopy(h) /\ Destroy(h)
  \/ \E f \in fin : ~Suspended(f) /\ ~Dangles(f) /\ SinkStep(f)
  \/ \E f \in fin : ~Suspended(f) /\ ~Dangles(f) /\ FreeStep(f)
  \/ \E f \in fin, g \in Handles : SinkCopy(f, g)
  \/ \E f \in fin, g \in Handles : SinkDestroyCopy(f, g)
  \/ \E f \in fin : Dangling(f)

SpecReentrant == Init /\ [][NextReentrant]_vars

\* ---- merging an Errata without annotations ------------------------------
\* Errata::Errata() for the donor slot.
ConstructDonor ==
  /\ UNCHANGED <<_r, reg>>
  /\ ~live[Donor] /\ fatal = "none" /\ FreeThread
  /\ live' = [live EXCEPT ![Donor] = TRUE]
  /\ _data' = [_data EXCEPT ![Donor] = NULL]
  /\ last' = Other
  /\ UNCHANGED <<blockVars, Sink_List, reported, fin, fatal, nmsg>>

\* Errata objects that are made, noted on, copied, merged and destroyed,
\* with one more Errata that is made and destroyed and merged into the
\* others, and is never noted on.
NextMerge ==
  \/ \E h \in Handles : Construct(h)
  \/ ConstructDonor
  \/ \E h, that \in Handles : CopyConstruct(h, that)
  \/ \E h \in Handles, sev \in Severity : Note(h, sev)
  \/ \E h \in Handles, that \in AllHandles : NoteCopy(h, that)
  \/ \E h \in Handles, that \in AllHandles : NoteMove(h, that)
  \/ \E h \in AllHandles : Destroy(h)
  \/ \E f \in fin : SinkStep(f)
  \/ \E f \in fin : FreeStep(f)
  \/ \E s \in Sinks : RegisterSink(s)

SpecMerge == Init /\ [][NextMerge]_vars

\* ==== properties =========================================================

\* The step is a note call through h, plain or formatted, that went through
\* (it took a text; the one that raises the fatal error takes none).
Pushes(h, sev, cap) ==
  nmsg' = nmsg + 1 /\ (Note(h, sev) \/ NoteV(h, sev, cap))

\* The step is a merge of that into h, copy or move form, that went through.
Merges(h, that) ==
  last'.op \in {"note_copy", "note_move"}
  /\ (NoteCopy(h, that) \/ NoteMove(h, that))

\* The sink calls a complete dispatch leaves behind for a block holding
\* notes: one per registered sink, in registration order, each shown every
\* annotation.
Expected(sinks, notes) ==
  [i \in 1..Len(sinks) |-> [sink |-> sinks[i], seen |-> ShownAll(notes)]]

\* The last reference to b is h's, b holds annotations, and h is ready.
LastRef(h) ==
  /\ Ready(h) /\ _data[h] # NULL
  /\ _ref_count[_data[h]] = 1
  /\ _notes[_data[h]] # <<>>

C1_Step ==
  /\ \A h \in Handles :
        (LastRef(h) /\ Sink_List # <<>>
           /\ (Destroy(h) \/ \E that \in Handles \ {h} : MoveAssign(h, that)))
        => LET b == _data[h]
           IN /\ _ref_count'[b] = 0
              /\ alive'[b] = "live" /\ _notes'[b] = _notes[b]
              /\ reported'[b] = <<>>
              /\ \E f \in fin' : f.h = h /\ f.pc = "sink" /\ f.i = 1
  /\ \A b \in Blocks :
        /\ reported'[b] # reported[b]
           => /\ alive[b] = "live" /\ alive'[b] = "live"
              /\ _ref_count[b] = 0 /\ _notes'[b] = _notes[b]
              /\ Len(reported[b]) < Len(Sink_List)
              /\ reported'[b] =
                   Append(reported[b],
                          [sink |-> Sink_List[Len(reported[b]) + 1],
                           seen |-> ShownAll(_notes[b])])
        /\ (alive[b] = "live" /\ alive'[b] = "released")
           => /\ _notes[b] # <<>>
              /\ reported[b] = Expected(Sink_List, _notes[b])
              /\ reported'[b] = reported[b]
        /\ (alive[b] = "live" /\ alive'[b] = "cleared")
           => reported[b] = <<>> /\ reported'[b] = <<>>
        /\ alive[b] \in {"released", "cleared"}
           => alive'[b] = alive[b] /\ reported'[b] = reported[b]

\* C1: when a destructor or a move assignment drops the last reference to a
\* block that holds annotations, every registered sink is called exactly
\* once for the block, in registration order, each seeing all annotations
\* of the still existing block; the block is released only after the last
\* sink, and nothing is reported for it afterwards.  A block emptied by
\* clear() is released without any sink call.
C1_AbandonmentReporting == [][C1_Step]_vars

\* An abandoned block with one ERROR annotation, reported to both sinks.
C1_Witness ==
  \E b \in Blocks :
    /\ alive[b] = "released"
    /\ Sink_List = <<1, 2>>
    /\ reported[b] =
         <<[sink |-> 1, seen |-> <<[severity |-> ERROR, text |-> Msg(1)]>>],
           [sink |-> 2, seen |-> <<[severity |-> ERROR, text |-> Msg(1)]>>]>>

\* The live handles pointing at block b.
HandlesOn(b) == {h \in Handles : live[h] /\ _data[h] = b}

\* A release() is between its decrement and the destruction of block b.
Finalizing(b) == \E f \in fin : _data[f.h] = b

C2_Inv ==
  /\ \A b \in Blocks :
        /\ (alive[b] = "live" /\ ~Finalizing(b))
           => _ref_count[b] = Cardinality(HandlesOn(b)) /\ _ref_count[b] >= 1
        /\ (alive[b] = "live" /\ Finalizing(b))
           => /\ _ref_count[b] = 0
              /\ \E f \in fin : HandlesOn(b) \subseteq {f.h}
        /\ alive[b] # "live" => _ref_count[b] = 0
  /\ \A h \in Handles :
        (live[h] /\ _data[h] # NULL) => alive[_data[h]] = "live"

C2_Step ==
  \A b \in Blocks :
    /\ (alive[b] # "unborn" /\ _ref_count[b] = 0) => _ref_count'[b] = 0
    /\ (_ref_count[b] > 0 /\ _ref_count'[b] = 0)
       => (alive'[b] \in {"released", "cleared"} \/ Finalizing(b)')

\* C2: between operations a block's _ref_count is the number of live handles
\* pointing at it (while release() runs its sinks the count is 0 and only
\* the handle being released still points at the block); once the count is
\* 0 it stays 0, reaching 0 starts the finalization, and no live handle
\* points at a destroyed block.
C2_RefCount == []C2_Inv /\ [][C2_Step]_vars

\* A block shared by two handles, after an earlier block was finalized.
C2_Witness ==
  \E b, c \in Blocks :
    /\ _ref_count[b] = 2 /\ Cardinality(HandlesOn(b)) = 2
    /\ alive[c] = "released"

\* h is ready for a call and its block has other references too.
Shared(h) == Ready(h) /\ _data[h] # NULL /\ _ref_count[_data[h]] > 1

C3_Step ==
  /\ \A h \in Handles, sev \in Severity, cap \in 0..MaxCap :
        (Shared(h) /\ (Note(h, sev) \/ NoteV(h, sev, cap)))
        => /\ fatal' \in {"note", "note_v"}
           /\ UNCHANGED <<live, _data, alive, _ref_count, _notes, _severity>>
  /\ \A b \in Blocks :
        (alive[b] = "live" /\ _notes'[b] # _notes[b])
        => \/ _ref_count[b] = 1
           \/ _ref_count[b] = 0 /\ alive'[b] = "released"

\* C3: a note (plain or formatted) through a handle whose block has other
\* references raises the fatal error and changes no block and no handle; a
\* block's list changes only while its count is 1 (or when the block, its
\* count 0, is destroyed).
C3_ExclusiveWrite == [][C3_Step]_vars

\* The fatal error was raised by a note on a block with two references.
C3_Witness ==
  /\ fatal \in {"note", "note_v"}
  /\ \E b \in Blocks : _ref_count[b] = 2 /\ Len(_notes[b]) >= 1

C4_Step ==
  /\ \A h \in Handles :
        (LastRef(h) /\ Clear(h))
        => LET b == _data[h]
           IN /\ _data'[h] = NULL /\ live'[h]
              /\ count(h)' = 0 /\ empty(h)' /\ is_ok(h)'
              /\ alive'[b] = "cleared"
              /\ reported[b] = <<>> /\ reported'[b] = <<>>
              /\ fin' = fin
  /\ \A b \in Blocks :
        alive[b] = "cleared"
        => alive'[b] = "cleared" /\ reported'[b] = <<>> /\ ~Finalizing(b)'
  /\ \A h \in Handles :
        (Ready(h) /\ _data[h] = NULL /\ Destroy(h))
        => reported' = reported /\ fin' = fin

\* C4: clear() on the only handle of a block holding annotations leaves the
\* handle empty (count 0, is_ok) and destroys the block without starting a
\* dispatch; no sink is ever called for that block, and destroying the
\* emptied handle calls none.
C4_ClearSuppresses == [][C4_Step]_vars

\* A clear() just destroyed a failing block while sinks were registered.
C4_Witness ==
  /\ last.op = "clear" /\ last.b # 0 /\ last.n >= 1
  /\ last.sev >= FAILURE_SEVERITY
  /\ Sink_List # <<>>
  /\ alive[last.b] = "cleared" /\ reported[last.b] = <<>>

\* The greatest severity in a list, DEFAULT_SEVERITY for the empty list.
MaxSev(list) ==
  IF list = <<>> THEN DEFAULT_SEVERITY
  ELSE CHOOSE m \in Severity :
         /\ \E i \in 1..Len(list) : list[i]._severity = m
         /\ \A i \in 1..Len(list) : list[i]._severity <= m

C5_Inv ==
  /\ \A b \in Blocks : alive[b] = "live" => _severity[b] = MaxSev(_notes[b])
  /\ \A h \in Handles :
        live[h]
        => /\ severity(h) = MaxSev(Iterate(h))
           /\ ~is_ok(h) <=> MaxSev(Iterate(h)) \in {WARN, ERROR}

C5_Step ==
  \A h \in Handles, sev \in Severity, cap \in 0..MaxCap :
    Pushes(h, sev, cap) => severity(h)' = Max(severity(h), sev)

\* C5: a block's aggregate severity is the greatest severity in its list
\* (DIAG for none); severity() returns it, each note raises it to the
\* maximum with the severity noted, and is_ok() is false exactly when it is
\* WARN or ERROR.
C5_SeverityAggregation == []C5_Inv /\ [][C5_Step]_vars

\* WARN noted first, then INFO: the aggregate stays WARN.
C5_Witness ==
  \E h \in Handles :
    /\ live[h] /\ count(h) = 2
    /\ Iterate(h)[1]._severity = INFO /\ Iterate(h)[2]._severity = WARN
    /\ severity(h) = WARN /\ ~is_ok(h)

\* The finalizations in flight on block b.
FinsOn(b) == {f \in fin : _data[f.h] = b}

C6_Inv ==
  /\ \A b \in Blocks :
        /\ Cardinality(FinsOn(b)) <= 1
        /\ alive[b] # "live" => HandlesOn(b) = {} /\ FinsOn(b) = {}
        /\ Len(reported[b]) <= Len(Sink_List)
        /\ \A i \in 1..Len(reported[b]) : reported[b][i].sink = Sink_List[i]
  /\ \A f \in fin :
        /\ _data[f.h] # NULL /\ alive[_data[f.h]] = "live"
        /\ HandlesOn(_data[f.h]) = {f.h}

C6_Step ==
  /\ \A h, that \in Handles :
        (Ready(that) /\ _data[that] # NULL /\ CopyConstruct(h, that))
        => LET b == _data[that]
           IN /\ _data'[h] = b /\ _data'[that] = b
              /\ _ref_count'[b] = _ref_count[b] + 1
              /\ alive'[b] = "live" /\ _notes'[b] = _notes[b]
              /\ fin' = fin /\ reported' = reported
  /\ \A h \in Handles :
        (Ready(h) /\ _data[h] # NULL /\ _ref_count[_data[h]] > 1 /\ Destroy(h))
        => LET b == _data[h]
           IN /\ ~live'[h]
              /\ _ref_count'[b] = _ref_count[b] - 1
              /\ alive'[b] = "live" /\ _notes'[b] = _notes[b]
              /\ fin' = fin /\ reported' = reported
  /\ \A b \in Blocks :
        /\ (alive[b] = "live" /\ alive'[b] # "live")
           => /\ HandlesOn(b)' = {}
              /\ \/ _ref_count[b] = 1 /\ Cardinality(HandlesOn(b)) = 1
                 \/ _ref_count[b] = 0 /\ Finalizing(b)
        /\ (~Finalizing(b) /\ Finalizing(b)')
           => /\ _ref_count[b] = 1 /\ _ref_count'[b] = 0
              /\ \E h \in HandlesOn(b) : FinsOn(b)' = {f \in fin' : f.h = h}
        /\ reported'[b] # reported[b]
           => /\ Finalizing(b) /\ Len(reported'[b]) = Len(reported[b]) + 1
              /\ \A i \in 1..Len(reported[b]) :
                    reported[b][i].sink # reported'[b][Len(reported'[b])].sink

Blank(h) ==
  /\ _data[h] = NULL /\ empty(h) /\ count(h) = 0 /\ is_ok(h)
  /\ severity(h) = DIAG /\ Iterate(h) = <<>>

\* h has the only reference to a block that did not exist before the step.
FreshBlock(h) ==
  /\ _data'[h] # NULL
  /\ alive[_data'[h]] = "unborn" /\ alive'[_data'[h]] = "live"
  /\ _ref_count'[_data'[h]] = 1
  /\ \A g \in Handles \ {h} : _data'[g] # _data'[h]

C7_Inv == \A h \in Handles : (live[h] /\ _data[h] = NULL) => Blank(h)

C7_Step ==
  /\ \A h \in Handles :
        (~live[h] /\ Construct(h))
        => live'[h] /\ Blank(h)' /\ UNCHANGED blockVars
  /\ \A h \in Handles :
        (Ready(h) /\ _data[h] = NULL)
        => /\ \A g \in Handles :
                (~live[g] /\ (CopyConstruct(g, h) \/ MoveConstruct(g, h)))
                => /\ Blank(g)' /\ Blank(h)'
                   /\ UNCHANGED <<blockVars, reported, fin>>
           /\ Clear(h)
              => live'[h] /\ Blank(h)' /\ UNCHANGED <<blockVars, reported, fin>>
           /\ Destroy(h)
              => ~live'[h] /\ UNCHANGED <<blockVars, reported, fin>>
           /\ \A sev \in Severity, cap \in 0..MaxCap :
                Pushes(h, sev, cap) => FreshBlock(h) /\ count(h)' = 1
           /\ \A that \in Handles :
                (Merges(h, that) /\ count(that) > 0)
                => FreshBlock(h) /\ count(h)' = count(that)
  /\ \A h \in Handles :
        (Ready(h) /\ _data[h] # NULL /\ _ref_count[_data[h]] = 1)
        => /\ \A sev \in Severity, cap \in 0..MaxCap :
                Pushes(h, sev, cap)
                => /\ _data'[h] = _data[h] /\ _ref_count'[_data[h]] = 1
                   /\ alive' = alive
           /\ \A that \in Handles :
                (Merges(h, that) /\ _data[that] # _data[h])
                => /\ _data'[h] = _data[h] /\ _ref_count'[_data[h]] = 1
                   /\ \A b \in Blocks : alive[b] = "unborn" => alive'[b] = "unborn"

\* C7: a default-constructed Errata has no block, is empty, has count 0, is
\* ok and of severity DIAG; copying it, moving from it, clearing it and
\* destroying it allocate nothing, touch no block and call no sink; the
\* first note or merge of annotations through it gives it a block that did
\* not exist before, with one reference and no other handle on it, and
\* further notes and merges through a handle that alone owns its block stay
\* on that block.
C7_DefaultConstructed == []C7_Inv /\ [][C7_Step]_vars

\* The first handle has noted twice on the only block ever allocated; the
\* second handle was constructed and never got a block.
C7_Witness ==
  /\ live[1] /\ _data[1] # NULL /\ _ref_count[_data[1]] = 1 /\ count(1) = 2
  /\ nmsg = 2
  /\ \A b \in Blocks \ {_data[1]} : alive[b] = "unborn"
  /\ live[2] /\ _data[2] = NULL

C8_Step ==
  \A h \in Handles, sev \in Severity, cap \in 0..MaxCap :
    Pushes(h, sev, cap)
    => LET pushed == [severity |-> sev, text |-> Msg(nmsg + 1)]
       IN /\ ShownAll(Iterate(h))' = <<pushed>> \o ShownAll(Iterate(h))
          /\ Shown(front(h))' = pushed
          /\ Shown(Iterate(h)[1])' = pushed

\* C8: a push through a handle puts the annotation, with the severity and
\* the whole text it was pushed with, at the head of the iteration and
\* leaves the earlier annotations behind it as they were; so pushes m_1 ..
\* m_n are iterated m_n .. m_1, and front() and begin() give the last push.
C8_Lifo == [][C8_Step]_vars

\* INFO with the first text was pushed, then ERROR with the second.
C8_Witness ==
  \E h \in Handles :
    /\ live[h]
    /\ ShownAll(Iterate(h)) = <<[severity |-> ERROR, text |-> Msg(2)],
                                [severity |-> INFO, text |-> Msg(1)]>>
    /\ Shown(front(h)) = [severity |-> ERROR, text |-> Msg(2)]

\* h and that are ready for a merge of that into h: they are different
\* handles on different blocks (or without one), and h's block, if it has
\* one, has no other reference.
Mergeable(h, that) ==
  /\ h # that /\ Ready(h) /\ Ready(that)
  /\ \/ _data[h] = NULL
     \/ _data[h] # _data[that] /\ _ref_count[_data[h]] = 1

Range(list) == {list[i] : i \in 1..Len(list)}

\* How often x occurs in list.
Occ(list, x) == Cardinality({i \in 1..Len(list) : list[i] = x})

C9_Step ==
  \A h, that \in Handles :
    (Mergeable(h, that) /\ Merges(h, that))
    => LET A == ShownAll(Iterate(h))
           B == ShownAll(Iterate(that))
           R == ShownAll(Iterate(h))'
       IN /\ count(h)' = count(h) + count(that)
          /\ \A x \in Range(A) \cup Range(B) \cup Range(R) :
                Occ(R, x) = Occ(A, x) + Occ(B, x)
          /\ severity(h)' = Max(severity(h), severity(that))
          /\ NoteCopy(h, that)
             => /\ _data'[that] = _data[that]
                /\ Iterate(that)' = Iterate(that)
                /\ severity(that)' = severity(that)
                /\ _data[that] # NULL
                   => _ref_count'[_data[that]] = _ref_count[_data[that]]
          /\ NoteMove(h, that)
             => live'[that] /\ empty(that)' /\ count(that)' = 0

\* C9: after A.note(B), with A and B on different blocks and A the only
\* owner of its block, A.count() is the sum of the two counts, A holds
\* exactly its own annotations and B's, each with its text and severity,
\* and A.severity() is the greater of the two severities; the copy form
\* leaves B, its annotations and its block's count as they were, the move
\* form leaves B empty.
C9_Merge == [][C9_Step]_vars

\* A move-form merge just took two annotations into a handle that had one
\* of a lower severity; the donor is left without a block.
C9_Witness ==
  \E h, that \in Handles :
    /\ h # that /\ live[h] /\ live[that]
    /\ last.op = "note_move" /\ last.n = 2
    /\ count(h) = 3 /\ severity(h) = last.sev
    /\ Iterate(h)[3]._severity < last.sev
    /\ _data[that] = NULL

\* r is an interleaving of x and y: it holds the elements of both, those of
\* x in the order of x and those of y in the order of y.
RECURSIVE IsShuffle(_, _, _)
IsShuffle(r, x, y) ==
  IF r = <<>> THEN x = <<>> /\ y = <<>>
  ELSE \/ x # <<>> /\ Head(x) = Head(r) /\ IsShuffle(Tail(r), Tail(x), y)
       \/ y # <<>> /\ Head(y) = Head(r) /\ IsShuffle(Tail(r), x, Tail(y))

C10_Step ==
  \A h, that \in Handles :
    (Mergeable(h, that) /\ Merges(h, that))
    => IsShuffle(ShownAll(Iterate(h))', ShownAll(Iterate(that)),
                 ShownAll(Iterate(h)))

\* C10: after A.note(B), copy or move form, the iteration of A is an
\* interleaving of the iteration B had and the iteration A had: two
\* annotations from B come in A in the order they had in B, and A's own
\* stay in the order they had.
C10_MergeOrderStable == [][C10_Step]_vars

\* A copy-form merge just took two annotations with different texts into a
\* handle that had one; they lead its iteration in the donor's order.
C10_Witness ==
  \E h, that \in Handles :
    /\ h # that /\ live[h] /\ live[that]
    /\ last.op = "note_copy" /\ last.n = 2
    /\ count(that) = 2 /\ count(h) = 3
    /\ Iterate(that)[1]._text.str # Iterate(that)[2]._text.str
    /\ SubSeq(ShownAll(Iterate(h)), 1, 2) = ShownAll(Iterate(that))

C11_Step ==
  /\ \A h, that \in Handles :
        (Mergeable(h, that) /\ LastRef(that) /\ NoteMove(h, that))
        => LET b == _data[that]
               B == ShownAll(Iterate(that))
               R == ShownAll(Iterate(h))'
           IN /\ live'[that] /\ _data'[that] = NULL
              /\ alive'[b] = "cleared"
              /\ reported[b] = <<>> /\ reported'[b] = <<>>
              /\ fin' = fin
              /\ \A x \in Range(B) : Occ(R, x) >= Occ(B, x)
              /\ alive'[_data'[h]] = "live" /\ reported'[_data'[h]] = <<>>
  /\ \A b \in Blocks :
        /\ alive[b] = "cleared"
           => alive'[b] = "cleared" /\ reported'[b] = <<>> /\ ~Finalizing(b)'
        /\ (alive[b] = "live" /\ alive'[b] = "released" /\ Sink_List # <<>>)
           => reported[b] = Expected(Sink_List, _notes[b])
  /\ \A h \in Handles :
        (Ready(h) /\ _data[h] = NULL /\ Destroy(h))
        => ~live'[h] /\ reported' = reported /\ fin' = fin

\* C11: A.note(std::move(B)), B being the only handle of its block, leaves B
\* without a block and B's block destroyed with no sink called for it, then
\* or ever; B's annotations are in A's block, for which nothing was reported
\* yet; destroying B afterwards calls no sink; and when a block is abandoned
\* each registered sink was called once for it, seeing all its annotations,
\* the donated ones among them.
C11_MoveMergeReportsOnce == [][C11_Step]_vars

\* The receiver's block was abandoned and reported to both sinks with an
\* older text ahead of a newer one, as a merge leaves them; the donor's
\* block went unreported.
C11_Witness ==
  \E a, b \in Blocks :
    /\ Sink_List = <<1, 2>>
    /\ alive[a] = "released" /\ alive[b] = "cleared"
    /\ reported[b] = <<>>
    /\ Len(reported[a]) = 2
    /\ \A i \in 1..2 :
          /\ reported[a][i].sink = i
          /\ Len(reported[a][i].seen) = 2
          /\ reported[a][i].seen[1].text = Msg(1)
          /\ reported[a][i].seen[2].text = Msg(2)
          /\ reported[a][i].seen[1].severity = ERROR

\* The memory a text view points into is there: the caller's literal, or the
\* arena of a block that exists.
Valid(text) == text.mem = LITERAL \/ alive[text.mem] = "live"

C12_Inv ==
  /\ \A b \in Blocks :
        \A i \in 1..Len(_notes[b]) : _notes[b][i]._text.mem = b
  /\ \A h \in Handles :
        live[h]
        => \A i \in 1..Len(Iterate(h)) :
              /\ Iterate(h)[i]._text.mem = _data[h]
              /\ Valid(Iterate(h)[i]._text)

\* C12: the text of every annotation of a block lies in the arena of that
\* block, whether the annotation came from a plain note, a formatted note or
\* a merge; so every text reached through a live handle is valid, also after
\* the block it was merged from is destroyed.
C12_ArenaOwnership == C12_Inv

\* A handle holds an older text ahead of a newer one, as a merge leaves
\* them, and the other block, the donor's, is destroyed.
C12_Witness ==
  \E h \in Handles :
    /\ live[h] /\ count(h) = 2
    /\ Iterate(h)[1]._text.str = Msg(1) /\ Iterate(h)[2]._text.str = Msg(2)
    /\ \A i \in 1..2 : Iterate(h)[i]._text.mem = _data[h]
    /\ \E b \in Blocks \ {_data[h]} : alive[b] \in {"released", "cleared"}

C13_Step ==
  \A g, h \in Handles :
    (~live[g] /\ Ready(h))
    => /\ (_data[h] # NULL /\ CopyConstruct(g, h))
          => LET b == _data[h]
             IN /\ live'[g] /\ _data'[g] = b /\ _data'[h] = b
                /\ _ref_count'[b] = _ref_count[b] + 1
                /\ \A c \in Blocks \ {b} : _ref_count'[c] = _ref_count[c]
                /\ UNCHANGED <<alive, _notes, _severity, reported, fin>>
       /\ (_data[h] = NULL /\ (CopyConstruct(g, h) \/ MoveConstruct(g, h)))
          => /\ live'[g] /\ Blank(g)' /\ Blank(h)'
             /\ UNCHANGED <<blockVars, reported, fin>>
       /\ (_data[h] # NULL /\ MoveConstruct(g, h))
          => LET b == _data[h]
             IN /\ live'[g] /\ _data'[g] = b
                /\ live'[h] /\ Blank(h)'
                /\ UNCHANGED <<blockVars, reported, fin>>
       /\ (_data[h] = NULL /\ Destroy(h))
          => ~live'[h] /\ UNCHANGED <<blockVars, reported, fin>>

\* C13: copy-constructing from a handle with a block leaves both handles on
\* that block, its count one higher, and every block's annotations, every
\* other count, the reports and the finalizations untouched; copying or
\* moving from a handle without a block gives a handle without one and
\* touches nothing; move-constructing from a handle with a block gives the
\* block to the new handle, leaves the source without a block and touches
\* no count and no annotation; destroying a handle without a block touches
\* nothing.
C13_CopyMove == [][C13_Step]_vars

\* A move constructor just took a failing block with one reference: the new
\* handle is its only owner, the source is live and empty.
C13_Witness ==
  /\ last.op = "move" /\ last.n = 1 /\ last.sev >= FAILURE_SEVERITY
  /\ alive[last.b] = "live" /\ _ref_count[last.b] = 1
  /\ Cardinality(HandlesOn(last.b)) = 1
  /\ \E h \in Handles : live[h] /\ _data[h] = NULL

C14_Step ==
  /\ \A a \in Handles :
        (Ready(a) /\ MoveAssign(a, a))
        => UNCHANGED <<live, _data, blockVars, Sink_List, reported, fin, fatal>>
  /\ \A a, b \in Handles :
        (a # b /\ Ready(a) /\ Ready(b) /\ MoveAssign(a, b))
        => LET old == _data[a]
               new == _data[b]
           IN /\ live'[a] /\ live'[b]
              /\ (new # NULL /\ new # old)
                 => /\ _ref_count'[new] = _ref_count[new]
                    /\ _notes'[new] = _notes[new] /\ alive'[new] = "live"
              /\ reported' = reported
              /\ IF LastRef(a) /\ Sink_List # <<>>
                 THEN /\ _ref_count'[old] = 0 /\ alive'[old] = "live"
                      /\ _data' = _data
                      /\ fin' = fin \cup {[h |-> a, that |-> b, i |-> 1,
                                            cont |-> "assign", pc |-> "sink"]}
                 ELSE /\ _data'[a] = new /\ _data'[b] = NULL
                      /\ fin' = fin
                      /\ old # NULL
                         => /\ _ref_count'[old] = _ref_count[old] - 1
                            /\ _ref_count[old] > 1
                               => alive'[old] = "live" /\ _notes'[old] = _notes[old]
                            /\ _ref_count[old] = 1 => alive'[old] = "released"
  /\ \A f \in fin :
        (f.cont = "assign" /\ FreeStep(f))
        => LET new == _data[f.that]
           IN /\ _data'[f.h] = new /\ _data'[f.that] = NULL
              /\ alive'[_data[f.h]] = "released"
              /\ new # NULL
                 => /\ _ref_count'[new] = _ref_count[new]
                    /\ _notes'[new] = _notes[new] /\ alive'[new] = "live"

\* C14: a = std::move(b) with a and b different objects: a drops its
\* reference to its block; when that was the last one the block is
\* finalized, through the sinks when it holds annotations and sinks are
\* registered, and otherwise the block stays as it is with one reference
\* less; then a has the block b had, whose count and annotations are
\* unchanged, and b has none.  When b is on a's own block, a stays on it
\* with one reference less and no sink is called.  a = std::move(a)
\* changes nothing.
C14_MoveAssign == [][C14_Step]_vars

\* notes = cycle(notes): the assignment just dropped one of two references
\* to the block both handles were on; the target is still on it, alone,
\* with both annotations, and no sink was called though sinks are
\* registered.
C14_Witness ==
  \E a, b \in Handles :
    /\ a # b /\ live[a] /\ live[b]
    /\ last.op = "assign" /\ last.n = 2
    /\ _data[a] = last.b /\ _data[b] = NULL
    /\ _ref_count[last.b] = 1 /\ count(a) = 2
    /\ Sink_List # <<>> /\ reported[last.b] = <<>> /\ fin = {}

C15_Step ==
  /\ \A b \in Blocks :
        reported'[b] # reported[b]
        => /\ _notes[b] # <<>> /\ _ref_count[b] = 0
           /\ reported'[b][Len(reported'[b])].seen = ShownAll(_notes[b])
  /\ \A h \in Handles :
        (LastRef(h) /\ Sink_List # <<>>
           /\ (Destroy(h) \/ \E that \in Handles \ {h} : MoveAssign(h, that)))
        => /\ \E f \in fin' \ fin : f.h = h /\ f.pc = "sink" /\ f.i = 1
           /\ alive'[_data[h]] = "live"
  /\ \A b \in Blocks :
        (alive[b] = "live" /\ alive'[b] = "released")
        => /\ _notes[b] # <<>>
           /\ reported[b] = <<>> => Sink_List = <<>>

C16_Step ==
  \A h \in Handles, sev \in Severity, cap \in 0..MaxCap :
    (nmsg' = nmsg + 1 /\ NoteV(h, sev, cap))
    => LET str == Msg(nmsg + 1)
           L   == Len(str)
       IN /\ count(h)' = count(h) + 1
          /\ Tail(Iterate(h)') = Iterate(h)
          /\ front(h)'._severity = sev
          /\ front(h)'._text.str = str /\ Len(front(h)'._text.str) = L
          /\ front(h)'._text.mem = _data'[h]
          /\ last'.op = "note_v" /\ last'.cap = cap /\ last'.alloc = L
          /\ L <= cap => last'.from = "remnant" /\ last'.prints = 1
          /\ L > cap => last'.from = "fresh" /\ last'.prints = 2

\* C16: a formatted note whose rendering has L characters, on an arena whose
\* remnant has C bytes, pushes exactly one annotation, whose text is the
\* whole rendering, in the block's own arena; L bytes are allocated; when
\* L <= C the text is the prefix of the remnant the one print wrote, and
\* when L > C it is a fresh span of L bytes, printed into by a second print.
C16_NoTruncation == [][C16_Step]_vars

\* A rendering of two characters was just noted on a remnant of one byte.
C16_Witness ==
  /\ last.op = "note_v" /\ last.cap = 1 /\ last.alloc = 2
  /\ last.from = "fresh" /\ last.prints = 2
  /\ \E h \in Handles :
        live[h] /\ count(h) = 2 /\ front(h)._text.str = Msg(2)

\* C17 as stated: an Rv<int> just made from an Errata alone has the result
\* int{}, has the annotations and the severity the Errata had, is not ok
\* when that severity was ERROR, and the Errata is left empty.
C17_RvFromErrata ==
  last.op = "rv_errata"
  => /\ result(last.h) = DefaultResult
     /\ count(last.h) = last.n /\ severity(last.h) = last.sev
     /\ last.sev = ERROR => ~Rv_is_ok(last.h)
     /\ _data[last.that] = NULL /\ empty(last.that)

\* xs is the tail end of ys.
IsSuffix(xs, ys) ==
  Len(xs) <= Len(ys) /\ SubSeq(ys, Len(ys) - Len(xs) + 1, Len(ys)) = xs

C18_Step ==
  /\ \A h, that \in Handles, r \in Results :
        (~live[h] /\ Ready(that) /\ RvBoth(h, r, that))
        => /\ IsRv(h)' /\ result(h)' = r
           /\ _data'[h] = _data[that] /\ live'[that] /\ _data'[that] = NULL
           /\ UNCHANGED <<blockVars, reported, fin>>
  /\ \A h, that \in Handles :
        (h # that /\ IsRv(h) /\ Ready(h) /\ Ready(that) /\ RvAssignErrata(h, that))
        => \A old, new \in {NULL} \cup Blocks :
              (old = _data[h] /\ new = _data[that])
              =>
              /\ IsRv(h)' /\ result(h)' = result(h)
              /\ reported' = reported
              /\ (new # NULL /\ new # old)
                 => /\ _ref_count'[new] = _ref_count[new]
                    /\ _notes'[new] = _notes[new] /\ alive'[new] = "live"
                    /\ ~Finalizing(new)'
              /\ IF LastRef(h) /\ Sink_List # <<>>
                 THEN /\ alive'[old] = "live" /\ _notes'[old] = _notes[old]
                      /\ \E f \in fin' \ fin :
                            f.h = h /\ f.that = that /\ f.pc = "sink" /\ f.i = 1
                 ELSE /\ _data'[h] = new /\ _data'[that] = NULL /\ fin' = fin
                      /\ (old # NULL /\ _ref_count[old] > 1)
                         => /\ alive'[old] = "live" /\ _notes'[old] = _notes[old]
                            /\ _ref_count'[old] = _ref_count[old] - 1
  /\ \A f \in fin :
        (IsRv(f.h) /\ FreeStep(f))
        => /\ reported[_data[f.h]] = Expected(Sink_List, _notes[_data[f.h]])
           /\ f.cont = "assign"
              => /\ IsRv(f.h)' /\ _data'[f.h] = _data[f.that]
                 /\ _data[f.that] # NULL
                    => /\ _notes'[_data[f.that]] = _notes[_data[f.that]]
                       /\ _ref_count'[_data[f.that]] = _ref_count[_data[f.that]]
  /\ \A h \in Handles, r \in Results :
        (IsRv(h) /\ Ready(h) /\ RvAssignResult(h, r))
        => /\ result(h)' = r
           /\ UNCHANGED <<live, _data, blockVars, reported, fin>>
  /\ \A h \in Handles :
        (IsRv(h) /\ ~Busy(h) /\ _data[h] # NULL)
        => \A b \in Blocks :
              b = _data[h]
              =>
              \/ IsRv(h)' /\ _data'[h] = b /\ alive'[b] = "live"
                 /\ IsSuffix(_notes[b], _notes'[b])
              \/ alive'[b] = "cleared"
              \/ alive'[b] = "live" /\ Finalizing(b)' /\ _notes'[b] = _notes[b]
              \/ alive'[b] = "released" /\ Sink_List = <<>>
              \/ /\ alive'[b] = "live" /\ _notes'[b] = _notes[b]
                 /\ HandlesOn(b)' # {} /\ _ref_count'[b] = Cardinality(HandlesOn(b)')

\* C18: Rv(result, Errata &&) takes the Errata's block as it is, count and
\* annotations unchanged, and calls no sink; rv = Errata && does the same
\* for the block it takes, after the status rv held is released: finalized
\* through the sinks when rv held the last reference of a block with
\* annotations and sinks are registered, one reference less otherwise;
\* assigning a result leaves the status alone.  In every step the block of
\* an Rv stays with it with all its annotations, or is emptied by clear(),
\* or goes into finalization with its annotations (destroyed unreported only
\* when no sink is registered), or stays with another handle; and the
\* finalization of an Rv's block ends after every sink saw it.
C18_RvStatusKept == [][C18_Step]_vars

\* rv = Errata && was just called on an Rv holding the last reference to a
\* failing block while sinks are registered: the dispatch for that block has
\* started and the new status, with annotations, waits to be taken.
C18_Witness ==
  /\ last.op = "assign" /\ last.n = 1 /\ last.sev >= FAILURE_SEVERITY
  /\ Sink_List # <<>>
  /\ \E f \in fin :
        /\ IsRv(f.h) /\ f.cont = "assign" /\ f.pc = "sink"
        /\ _data[f.h] = last.b /\ _ref_count[last.b] = 0
        /\ f.that # 0 /\ count(f.that) > 0

\* The step is a call that takes annotations away from h: clear(), the
\* destructor, a move out of h (move construction, move assignment or the
\* move form of note, with h the source), an assignment over h, or the end
\* of the finalization one of these started.
Leaves(h) ==
  \/ Clear(h) \/ Destroy(h)
  \/ \E g \in Handles :
        \/ MoveConstruct(g, h) \/ MoveAssign(g, h) \/ NoteMove(g, h)
        \/ MoveAssign(h, g)
  \/ \E f \in fin : h \in {f.h, f.that} /\ FreeStep(f)

C20_Step ==
  /\ \A h \in Handles, sev \in Severity, cap \in 0..MaxCap :
        Pushes(h, sev, cap)
        => /\ count(h)' = count(h) + 1
           /\ Tail(Iterate(h)') = Iterate(h)
  /\ \A h, that \in Handles :
        (live[h] /\ live[that] /\ Merges(h, that))
        => /\ count(h)' = count(h) + count(that)
           /\ IsSuffix(Iterate(h), Iterate(h)')
  /\ \A h \in Handles :
        (live[h] /\ count(h) > 0)
        => \/ live'[h] /\ IsSuffix(Iterate(h), Iterate(h)')
           \/ Leaves(h)

\* C20: a note call that goes through, plain or formatted, makes count() one
\* more and leaves the list that was there as the tail of the new list, the
\* same annotations in the same order; a merge makes count() more by the
\* count of the donor and leaves the list that was there as the tail as
\* well.  In every step the annotations of a handle stay where they are,
\* unless the step is clear(), the destructor, a move out of the handle or
\* an assignment over it.
C20_PushKeepsEarlier == [][C20_Step]_vars

\* A formatted DIAG note was just pushed on a handle holding an ERROR note:
\* the ERROR note is still there, behind it.
C20_Witness ==
  /\ last.op = "note_v"
  /\ \E h \in Handles :
        /\ live[h] /\ count(h) = 2
        /\ front(h)._severity = DIAG /\ front(h)._text.str = Msg(2)
        /\ Iterate(h)[2]._severity = ERROR /\ Iterate(h)[2]._text.str = Msg(1)

\* xs is the beginning of ys.
IsPrefix(xs, ys) == Len(xs) <= Len(ys) /\ SubSeq(ys, 1, Len(xs)) = xs

C19_Inv ==
  /\ \A i, j \in 1..Len(Sink_List) : Sink_List[i] = Sink_List[j] => i = j
  /\ \A t, u \in Threads : (Inside(t) /\ Inside(u)) => t = u
  /\ \A t \in Threads :
        /\ reg[t].pc \in {"wait", "locked", "read"}
           => Occ(Sink_List, reg[t].s) = 0
        /\ reg[t].pc = "written" => Occ(Sink_List, reg[t].s) = 1

C19_Step ==
  /\ IsPrefix(Sink_List, Sink_List')
  /\ \A t \in Threads :
        /\ RegWrite(t) => Sink_List' = Append(Sink_List, reg[t].s)
        /\ RegUnlock(t)
           => Sink_List' = Sink_List /\ Occ(Sink_List', reg[t].s) = 1
  /\ Sink_List' # Sink_List => \E t \in Threads : RegWrite(t)

\* C19: with register_sink calls of several threads under way at once, the
\* registry never holds a sink twice, a sink whose call has not stored yet
\* is not in it, and a sink whose call has stored is in it once, also when
\* the call returns; every step leaves the registry as the beginning of the
\* new registry (no sink is removed or changes its place), and the one step
\* that changes it is the store of a call, which puts the sink of that call
\* at the end.
C19_RegistryAppendOnly == []C19_Inv /\ [][C19_Step]_vars

\* Two register_sink calls are under way: one has stored its sink, which is
\* the whole registry, and still holds the exclusion the other waits for
\* with another sink.
C19_Witness ==
  \E t, u \in Threads :
    /\ t # u /\ reg[t].pc = "written" /\ reg[u].pc = "wait"
    /\ reg[t].s # reg[u].s
    /\ Sink_List = <<reg[t].s>>

C21_Step ==
  /\ \A h \in Handles, r \in Results :
        (IsRv(h) /\ Ready(h) /\ RvAssignResult(h, r))
        => /\ result(h)' = r
           /\ \A g \in Handles \ {h} : _r'[g] = _r[g]
           /\ UNCHANGED <<live, _data, blockVars, reported, fin, fatal>>
  /\ \A h \in Handles, sev \in Severity :
        (IsRv(h) /\ (RvNote(h, sev) \/ \E cap \in 0..MaxCap : RvNoteV(h, sev, cap)))
        => /\ _r' = _r /\ IsRv(h)' /\ result(h)' = result(h)
           /\ \A g \in Handles \ {h} : _data'[g] = _data[g]
           /\ nmsg' = nmsg + 1
              => /\ count(h)' = count(h) + 1
                 /\ front(h)'._severity = sev
                 /\ front(h)'._text.str = Msg(nmsg + 1)
           /\ nmsg' = nmsg => fatal' # "none" /\ UNCHANGED <<_data, blockVars>>
  /\ \A h, that \in Handles :
        (h # that /\ IsRv(h) /\ RvAssignErrata(h, that))
        => /\ _r' = _r /\ IsRv(h)' /\ result(h)' = result(h)
           /\ \/ _data'[h] = _data[that] /\ _data'[that] = NULL
              \/ \E f \in fin' \ fin : f.h = h /\ f.that = that /\ f.cont = "assign"
  /\ \A f \in fin :
        (IsRv(f.h) /\ f.cont = "assign" /\ FreeStep(f))
        => /\ _r' = _r /\ IsRv(f.h)'
           /\ _data'[f.h] = _data[f.that] /\ _data'[f.that] = NULL

\* C21: assigning a result to an Rv (operator= or assign) sets the result
\* and leaves every block, count, annotation, handle and finalization as it
\* was; a note on an Rv, plain or formatted, leaves every result as it was
\* and pushes on the Rv's own status only (or raises the shared-write error
\* and changes nothing); assigning an Errata to an Rv leaves every result as
\* it was and puts the block of the Errata in the Rv, at once or at the end
\* of the finalization of the status it held.
C21_RvHalves == [][C21_Step]_vars

\* A formatted note was just pushed on an Rv holding the result 1 and one
\* annotation: the result is 1 and the annotations are two.
C21_Witness ==
  /\ last.op = "note_v"
  /\ \E h \in Handles :
        /\ IsRv(h) /\ result(h) = 1 /\ count(h) = 2
        /\ front(h)._text.str = Msg(nmsg)

C22_Inv ==
  /\ \A f \in fin : _data[f.h] # NULL
  /\ last.op = "shortcut"
     => /\ live[last.h] /\ live[last.that]
        /\ _data[last.h] = last.b /\ last.b # NULL
        /\ _ref_count[last.b] = 1 /\ alive[last.b] = "live"
        /\ HandlesOn(last.b) = {last.h}
        /\ front(last.h)._severity = last.sev
        /\ front(last.h)._text.str = Msg(nmsg)
        /\ _data[last.that] = NULL /\ empty(last.that)

C22_Step ==
  /\ \A h, that \in Handles, sev \in Severity, cap \in 0..MaxCap :
        (nmsg' = nmsg + 1 /\ Shortcut(h, that, sev, cap))
        => /\ last'.op = "shortcut" /\ last'.h = h /\ last'.that = that
           /\ last'.sev = sev
           /\ count(h)' = count(that) + 1
           /\ Tail(Iterate(h)') = Iterate(that)
           /\ reported' = reported /\ fin' = fin
  /\ \A t \in Handles :
        (live[t] /\ _data[t] = NULL /\ Destroy(t))
        => /\ ~live'[t]
           /\ UNCHANGED <<blockVars, reported, fin>>
           /\ \A g \in Handles \ {t} : _data'[g] = _data[g]
  /\ \A b \in Blocks :
        reported'[b] # reported[b]
        => \E f \in fin : _data[f.h] = b /\ SinkStep(f)

\* C22: after a && shortcut (diag, info, warn or error) on an Errata t, the
\* returned handle is the one handle of the block, whose count is 1 and
\* whose newest annotation is the one just noted, with the severity of the
\* shortcut, ahead of those t had; t is left without a block and empty; the
\* call itself calls no sink.  The destructor of a handle without a block
\* changes no block, calls no sink and starts no finalization, and a sink is
\* called for a block only by the finalization run on a handle that holds
\* it.
C22_ShortcutHandsOver == []C22_Inv /\ [][C22_Step]_vars

\* error() && was just called on an Errata holding one annotation, with a
\* sink registered: the returned handle holds two and the Errata none.
C22_Witness ==
  /\ last.op = "shortcut" /\ last.sev = ERROR
  /\ Sink_List # <<>>
  /\ count(last.h) = 2 /\ _data[last.that] = NULL /\ live[last.that]

\* C23 as stated: with sinks that copy the Errata they are given and destroy
\* the copy, a block has at most one finalization under way, no sink is
\* called for it more often than once, and it is not destroyed while a
\* finalization on it still has sinks to call or is yet to destroy it.
C23_ReentrantSafe ==
  \A b \in Blocks :
    /\ Cardinality(FinsOn(b)) <= 1
    /\ Len(reported[b]) <= Len(Sink_List)
    /\ \A i, j \in 1..Len(reported[b]) :
          reported[b][i].sink = reported[b][j].sink => i = j
    /\ alive[b] = "released" => FinsOn(b) = {}

C24_Step ==
  \A h \in Handles, that \in AllHandles :
    (h # that /\ live[h] /\ live[that] /\ count(that) = 0
       /\ (NoteCopy(h, that) \/ NoteMove(h, that)))
    => /\ fatal' = "none"
       /\ _data'[h] = _data[h]
       /\ Iterate(h)' = Iterate(h) /\ count(h)' = count(h)
       /\ severity(h)' = severity(h) /\ is_ok(h)' = is_ok(h)
       /\ UNCHANGED <<live, _data, blockVars, Sink_List, reported, fin>>
       /\ last'.n = 0

====
